---- MODULE Spec2Model ----
(***************************************************************************)
(* The face similarity matching engine of NovaManager: the three matchers  *)
(* (FaceMatcher, FaceMatcherV2, FaceMatcherDeepFace), their benchmark      *)
(* sets, compare_face, batch_compare and the rating thresholds, and the    *)
(* analysis of the photo library in MainWindow.                            *)
(*                                                                         *)
(* Numbers.  The code works in floating point.  Here every real quantity   *)
(* (a vector component, a norm, a similarity, a threshold) is a fixed-point*)
(* number: the integer n stands for n / Scale.  A threshold such as 0.75   *)
(* is Thr(75).  The epsilon 1e-7 the code adds to a denominator is below   *)
(* the resolution; its only visible effect, a quotient 0 instead of a      *)
(* division by zero, is modelled where it occurs.                          *)
(***************************************************************************)
EXTENDS Integers, Sequences, FiniteSets, TLC

\* Resolution of the fixed-point numbers: n stands for n / Scale.
Scale == 100
\* Image files are numbered 0..MaxImage.
MaxImage == 4
\* A benchmark set holds at most MaxBenchmarks entries in the model.
MaxBenchmarks == 2
\* A batch holds at most MaxBatch image paths in the model.
MaxBatch == 2

----------------------------------------------------------------------------
(* Arithmetic *)

RECURSIVE SqrtSearch(_, _, _)
SqrtSearch(n, lo, hi) ==
    IF lo >= hi THEN lo
    ELSE LET mid == (lo + hi + 1) \div 2
         IN IF mid * mid <= n THEN SqrtSearch(n, mid, hi)
            ELSE SqrtSearch(n, lo, mid - 1)

\* floor(sqrt(n))
ISqrt(n) == SqrtSearch(n, 0, IF n < 46340 THEN n ELSE 46340)

RECURSIVE SumUpTo(_, _)
SumUpTo(f, n) == IF n = 0 THEN 0 ELSE f[n] + SumUpTo(f, n - 1)

\* sum of a sequence of numbers
SeqSum(s) == SumUpTo(s, Len(s))

\* SeqMax with min in place of max
SeqMin(s) ==
    CHOOSE m \in {s[k] : k \in 1..Len(s)} : \A k \in 1..Len(s) : m <= s[k]

RECURSIVE MaxUpTo(_, _)
MaxUpTo(f, n) ==
    IF n = 1 THEN f[1]
    ELSE LET m == MaxUpTo(f, n - 1) IN IF f[n] > m THEN f[n] ELSE m

\* Python's max(list): the largest element of a non-empty sequence
SeqMax(s) == MaxUpTo(s, Len(s))

\* Python's list.index(x): the first position holding x
IndexOf(s, x) == CHOOSE i \in 1..Len(s) : s[i] = x /\ \A j \in 1..(i - 1) : s[j] # x

Max2(a, b) == IF a > b THEN a ELSE b
Min2(a, b) == IF a < b THEN a ELSE b

\* np.dot of two vectors of the same length
Dot(a, b) == SeqSum([i \in 1..Len(a) |-> a[i] * b[i]])

\* a - b, componentwise
VecSub(a, b) == [i \in 1..Len(a) |-> a[i] - b[i]]

\* np.linalg.norm(v), in the unit of v's components
Norm(v) == ISqrt(Dot(v, v))

\* v / (|v| + 1e-7), a fixed-point vector; the zero vector stays zero
Normalized(v) ==
    IF Dot(v, v) = 0 THEN [i \in 1..Len(v) |-> 0]
    ELSE [i \in 1..Len(v) |-> (v[i] * Scale * Scale) \div ISqrt(Dot(v, v) * Scale * Scale)]

\* the real number p / 100 as a fixed-point number
Thr(p) == (p * Scale) \div 100

----------------------------------------------------------------------------
(* The image files and the external collaborators.                         *)
(* An image file is a number in Images.  What OpenCV's reader, the SSD face*)
(* detector and the DeepFace service answer for it is fixed data: file 0   *)
(* cannot be decoded, file 1 shows no face, the others show faces.         *)

Images == 0..MaxImage

\* cv2.imread(path) is not None
Readable(i) == i # 0

\* img.shape[:2], as <<w, h>>
ImageSize == <<4, 4>>

\* face_net.forward() for a readable image: the detections in the detector's
\* order, each with its confidence and its box detections[0,0,i,3:7] * [w,h,w,h]
\* as integers <<x1, y1, x2, y2>>
NetDetections(i) ==
    CASE i = 1 -> << [confidence |-> Thr(30), box |-> <<0, 0, 2, 2>>],
                     [confidence |-> Thr(50), box |-> <<1, 1, 3, 3>>] >>
      [] i = 2 -> << [confidence |-> Thr(90), box |-> <<1, 1, 3, 3>>] >>
      [] i = 3 -> << [confidence |-> Thr(60), box |-> <<0, 0, 2, 2>>],
                     [confidence |-> Thr(80), box |-> <<1, 0, 5, 3>>],
                     [confidence |-> Thr(40), box |-> <<2, 2, 4, 4>>] >>
      [] i = 4 -> << [confidence |-> Thr(70), box |-> <<-1, 1, 2, 3>>],
                     [confidence |-> Thr(95), box |-> <<3, 3, 3, 4>>] >>
      [] OTHER -> << [confidence |-> Thr(95), box |-> <<0, 0, 4, 4>>] >>

\* The pixels of a face crop decide its histograms.  A crop is the pair of its
\* image and its region; the concatenated LBP, HOG and colour histograms of the
\* 128x128 crop (non-negative numbers) are data of the crop.
CropHistograms(face) ==
    LET x == face.region[1]
        y == face.region[2]
    IN CASE face.img = 2 -> <<Thr(30) + Thr(10) * x, Thr(10) * y>>
         [] face.img = 3 -> <<Thr(10) * x, Thr(30) + Thr(10) * y>>
         [] face.img = 4 -> <<Thr(25) + Thr(10) * x, Thr(10) + Thr(10) * y>>
         [] OTHER        -> <<Thr(10) * face.img, Thr(10) + Thr(10) * x>>

\* cv2.calcHist over hue and saturation of a crop, flattened (FaceMatcher)
CropHueSatHistogram(face) ==
    LET x == face.region[1]
    IN CASE face.img = 2 -> <<4 + x, 1, 0>>
         [] face.img = 3 -> <<0, 1 + x, 4>>
         [] face.img = 4 -> <<2, 3, 1 + x>>
         [] OTHER        -> <<face.img, 1, 2 + x>>

\* The models of the DeepFace service the matcher may be built with.
Models == {"Facenet", "ArcFace", "OpenFace"}

\* length of a model's embedding vector (128, 512 and 128 in the service)
EmbeddingLen(model) == IF model = "ArcFace" THEN 3 ELSE 2

\* the embedding the service computes for the face (or, without detection, the
\* whole picture) of a decodable image
ServiceEmbedding(model, i) ==
    LET base == CASE i = 1 -> <<Thr(5), Thr(-40)>>
                  [] i = 2 -> <<Thr(30), Thr(10)>>
                  [] i = 3 -> <<Thr(-10), Thr(30)>>
                  [] i = 4 -> <<Thr(60), Thr(25)>>
                  [] OTHER -> <<Thr(10) * i, Thr(20)>>
    IN CASE model = "Facenet" -> base
         [] model = "ArcFace" -> <<base[1], base[2], Thr(10)>>
         [] OTHER             -> <<base[2], base[1] + Thr(10)>>

\* DeepFace.represent(img_path, model_name, detector_backend, enforce_detection):
\* the list of embeddings, or the exception raised.  With enforce_detection the
\* service raises ValueError for an image with no face.
DeepFaceRepresent(i, model, enforce_detection) ==
    IF ~Readable(i) THEN [raised |-> "Exception", result |-> <<>>]
    ELSE IF i = 1 /\ enforce_detection THEN [raised |-> "ValueError", result |-> <<>>]
    ELSE [raised |-> "", result |-> <<[embedding |-> ServiceEmbedding(model, i)]>>]

----------------------------------------------------------------------------
(* Descriptors and results.                                                *)
(* A descriptor is its vector together with the strategy that produced it  *)
(* (tag).  The code stores the bare vector; the tag is kept beside it here *)
(* so that properties can speak of the strategy a stored vector came from. *)

Descriptor(tag, vec) == [tag |-> tag, vec |-> vec]

\* Python's None where a list of faces is expected
None == <<>>

\* Python's None where a descriptor is expected
NoDescriptor == [tag |-> "None", vec |-> <<>>]

\* the empty dict
EmptyDict == [k \in {} |-> 0]

\* dict(zip(names, similarities)): a later entry of the same name replaces an
\* earlier one
DictZip(names, sims) ==
    LET n == Min2(Len(names), Len(sims))
    IN [k \in {names[j] : j \in 1..n} |->
           sims[CHOOSE j \in 1..n : names[j] = k /\ \A l \in (j + 1)..n : names[l] # k]]

\* The value compare_face returns.  With return_details the code returns a dict
\* whose keys are `keys`; without, it returns `rating` alone.  similarities and
\* score are the local variables of the call (the list of similarities, and the
\* number that was rated); compared lists the tags of the two descriptors of
\* every similarity computed; raised is the exception that leaves the call
\* instead of a value ("" when the call returns one).
ErrorResult(message) ==
    [rating |-> 0, keys |-> {"rating", "error"}, error |-> message, raised |-> "",
     best_similarity |-> 0, best_match |-> "", all_similarities |-> EmptyDict,
     similarities |-> <<>>, score |-> 0, compared |-> {}]

RatedResult(rating, best, name, all, sims, compared) ==
    [rating |-> rating,
     keys |-> {"rating", "best_similarity", "best_match", "all_similarities"},
     error |-> "", raised |-> "", best_similarity |-> best, best_match |-> name,
     all_similarities |-> all, similarities |-> sims, score |-> best,
     compared |-> compared]

----------------------------------------------------------------------------
(* FaceMatcherV2 (face_matcher_v2.py) *)

\* self.confidence_threshold, as the tab builds the matcher
ConfidenceThreshold == Thr(50)

\* x1, y1 = max(0, x1), max(0, y1); x2, y2 = min(w, x2), min(h, y2)
ClipBox(box) ==
    << Max2(0, box[1]), Max2(0, box[2]),
       Min2(ImageSize[1], box[3]), Min2(ImageSize[2], box[4]) >>

\* a Python slice bound k on an axis of length n
SliceBound(k, n) == IF k < 0 THEN Max2(0, n + k) ELSE Min2(k, n)

\* img[y:y2, x:x2] for the unclipped box: the region the slice selects
SliceRegion(box) ==
    << SliceBound(box[1], ImageSize[1]), SliceBound(box[2], ImageSize[2]),
       SliceBound(box[3], ImageSize[1]), SliceBound(box[4], ImageSize[2]) >>

\* face.size of img[y1:y2, x1:x2]
RegionSize(region) ==
    LET r == SliceRegion(region)
    IN Max2(0, r[3] - r[1]) * Max2(0, r[4] - r[2])

\* the list faces of detect_faces: (face, confidence) of every detection above
\* the threshold whose clipped crop is not empty, in the detector's order
DetectedFaces(i) ==
    LET dets == NetDetections(i)
        kept == SelectSeq(dets, LAMBDA d :
                    d.confidence > ConfidenceThreshold /\ RegionSize(ClipBox(d.box)) > 0)
    IN [k \in 1..Len(kept) |->
           [face |-> [img |-> i, region |-> SliceRegion(ClipBox(kept[k].box))],
            confidence |-> kept[k].confidence]]

\* faces.sort(key=confidence, reverse=True); faces[0]: the sort is stable, so
\* the first of the most confident faces comes first
MostConfident(faces) ==
    LET confs == [k \in 1..Len(faces) |-> faces[k].confidence]
    IN faces[IndexOf(confs, SeqMax(confs))].face

\* detect_faces(image_path, return_all=False): None, or the list of one face
DetectFaces(i) ==
    IF ~Readable(i) THEN None
    ELSE IF DetectedFaces(i) = <<>> THEN None
    ELSE <<MostConfident(DetectedFaces(i))>>

\* _compute_embedding: the concatenated histograms, L2-normalized
ComputeEmbedding(face) == Descriptor("handcrafted", Normalized(CropHistograms(face)))

\* QuantizeHandcrafted whose last branch gives 0 stars
QuantizeHandcraftedNoFloor(s) ==
    IF s > Thr(75) THEN 5
    ELSE IF s > Thr(68) THEN 4
    ELSE IF s > Thr(60) THEN 3
    ELSE IF s > Thr(52) THEN 2
    ELSE 0

\* the star rating of FaceMatcherV2.compare_face
QuantizeHandcrafted(s) ==
    IF s > Thr(75) THEN 5
    ELSE IF s > Thr(68) THEN 4
    ELSE IF s > Thr(60) THEN 3
    ELSE IF s > Thr(52) THEN 2
    ELSE 1

\* np.dot(embedding, bench_embedding)
V2Similarity(a, b) == Dot(a.vec, b.vec) \div Scale

\* FaceMatcherV2.compare_face(image_path)
V2CompareFace(embeddings, names, i) ==
    IF embeddings = <<>> THEN ErrorResult("No benchmarks")
    ELSE IF DetectFaces(i) = None THEN ErrorResult("No face detected")
    ELSE LET embedding == ComputeEmbedding(DetectFaces(i)[1])
             similarities == [k \in 1..Len(embeddings) |->
                                 V2Similarity(embedding, embeddings[k])]
             best_similarity == SeqMax(similarities)
             best_match_idx == IndexOf(similarities, best_similarity)
         IN RatedResult(QuantizeHandcrafted(best_similarity), best_similarity,
                        names[best_match_idx], DictZip(names, similarities),
                        similarities,
                        {<<embedding.tag, embeddings[k].tag>> : k \in 1..Len(embeddings)})

----------------------------------------------------------------------------
(* FaceMatcherDeepFace (face_matcher_deepface.py) *)

\* the values of distance_metric the class documents, and one it does not
SupportedMetrics == {"cosine", "euclidean", "euclidean_l2"}
Metrics == SupportedMetrics \cup {"manhattan"}

\* GetEmbedding calling the service with enforce_detection=False
GetEmbeddingUnenforced(model_name, i) ==
    LET rep == DeepFaceRepresent(i, model_name, FALSE)
    IN IF rep.raised # "" THEN NoDescriptor
       ELSE IF Len(rep.result) > 0 THEN Descriptor(model_name, rep.result[1].embedding)
       ELSE NoDescriptor

\* _get_embedding: the first embedding of the service's answer, None when the
\* service raises (no face, or any other error) or answers nothing
GetEmbedding(model_name, i) ==
    LET rep == DeepFaceRepresent(i, model_name, TRUE)
    IN IF rep.raised # "" THEN NoDescriptor
       ELSE IF Len(rep.result) > 0 THEN Descriptor(model_name, rep.result[1].embedding)
       ELSE NoDescriptor

\* CosineSimilarity without the division by the norms
CosineUnnormalized(a, b) == Dot(a, b) \div Scale

\* the cosine branch: dot / (|a| |b| + 1e-7)
CosineSimilarity(a, b) ==
    IF Dot(a, a) * Dot(b, b) = 0 THEN 0
    ELSE (Dot(a, b) * Scale) \div ISqrt(Dot(a, a) * Dot(b, b))

\* the euclidean branch: max(0, 1 - |a - b| / 1.5)
EuclideanSimilarity(a, b) == Max2(0, Scale - (Norm(VecSub(a, b)) * 10) \div 15)

\* the euclidean_l2 branch: max(0, 1 - |a/|a| - b/|b|| / 2); a zero vector divides
\* to NaN, and max(0, NaN) is 0
EuclideanL2Similarity(a, b) ==
    IF Dot(a, a) = 0 \/ Dot(b, b) = 0 THEN 0
    ELSE Max2(0, Scale - Norm(VecSub(Normalized(a), Normalized(b))) \div 2)

\* ComputeSimilarity where a metric that is not listed is taken as cosine
ComputeSimilarityDefaultCosine(distance_metric, a, b) ==
    CASE distance_metric = "euclidean"    -> EuclideanSimilarity(a.vec, b.vec)
      [] distance_metric = "euclidean_l2" -> EuclideanL2Similarity(a.vec, b.vec)
      [] OTHER                            -> CosineSimilarity(a.vec, b.vec)

\* _compute_similarity(embedding1, embedding2) of a matcher with the given
\* distance_metric, for vectors of one length
ComputeSimilarity(distance_metric, a, b) ==
    CASE distance_metric = "cosine"       -> CosineSimilarity(a.vec, b.vec)
      [] distance_metric = "euclidean"    -> EuclideanSimilarity(a.vec, b.vec)
      [] distance_metric = "euclidean_l2" -> EuclideanL2Similarity(a.vec, b.vec)
      [] OTHER                            -> 0

\* A call of _compute_similarity on any two descriptors: numpy raises ValueError
\* on vectors of different lengths; nothing in the method looks at where the
\* vectors come from.
ComputeSimilarityCall(distance_metric, a, b) ==
    IF distance_metric \in SupportedMetrics /\ Len(a.vec) # Len(b.vec)
    THEN [raised |-> "ValueError", value |-> 0]
    ELSE [raised |-> "", value |-> ComputeSimilarity(distance_metric, a, b)]

QuantizeFacenet(s) ==
    IF s > Thr(80) THEN 5
    ELSE IF s > Thr(70) THEN 4
    ELSE IF s > Thr(60) THEN 3
    ELSE IF s > Thr(50) THEN 2
    ELSE 1

\* QuantizeArcFace with the last comparison turned round
QuantizeArcFaceTurned(s) ==
    IF s > Thr(85) THEN 5
    ELSE IF s > Thr(75) THEN 4
    ELSE IF s > Thr(65) THEN 3
    ELSE IF s < Thr(55) THEN 2
    ELSE 1

QuantizeArcFace(s) ==
    IF s > Thr(85) THEN 5
    ELSE IF s > Thr(75) THEN 4
    ELSE IF s > Thr(65) THEN 3
    ELSE IF s > Thr(55) THEN 2
    ELSE 1

QuantizeGeneric(s) ==
    IF s > Thr(75) THEN 5
    ELSE IF s > Thr(65) THEN 4
    ELSE IF s > Thr(55) THEN 3
    ELSE IF s > Thr(45) THEN 2
    ELSE 1

\* the if/elif chain on self.model_name in compare_face
QuantizeDeepFace(model_name, s) ==
    CASE model_name = "Facenet" -> QuantizeFacenet(s)
      [] model_name = "ArcFace" -> QuantizeArcFace(s)
      [] OTHER                  -> QuantizeGeneric(s)

\* a compare_face that rates the similarity to the entry added last
DeepFaceCompareFaceLatest(model_name, distance_metric, benchmarks, i) ==
    IF benchmarks = <<>> THEN ErrorResult("No benchmarks")
    ELSE IF GetEmbedding(model_name, i) = NoDescriptor THEN ErrorResult("No face detected")
    ELSE LET embedding == GetEmbedding(model_name, i)
             similarities == [k \in 1..Len(benchmarks) |->
                                 ComputeSimilarity(distance_metric, embedding, benchmarks[k][2])]
             names == [k \in 1..Len(benchmarks) |-> benchmarks[k][1]]
             latest == similarities[Len(benchmarks)]
         IN RatedResult(QuantizeDeepFace(model_name, latest), latest,
                        names[Len(benchmarks)], DictZip(names, similarities),
                        similarities,
                        {<<embedding.tag, benchmarks[k][2].tag>> : k \in 1..Len(benchmarks)})

\* FaceMatcherDeepFace.compare_face(image_path); benchmarks is the list of
\* (name, embedding) tuples. The loop over the benchmarks is in no try block: a
\* ValueError of _compute_similarity leaves compare_face.
DeepFaceCompareFace(model_name, distance_metric, benchmarks, i) ==
    IF benchmarks = <<>> THEN ErrorResult("No benchmarks")
    ELSE IF GetEmbedding(model_name, i) = NoDescriptor THEN ErrorResult("No face detected")
    ELSE IF \E k \in 1..Len(benchmarks) :
                ComputeSimilarityCall(distance_metric, GetEmbedding(model_name, i),
                                      benchmarks[k][2]).raised # ""
         THEN [ErrorResult("") EXCEPT !.raised = "ValueError"]
    ELSE LET embedding == GetEmbedding(model_name, i)
             similarities == [k \in 1..Len(benchmarks) |->
                                 ComputeSimilarity(distance_metric, embedding, benchmarks[k][2])]
             names == [k \in 1..Len(benchmarks) |-> benchmarks[k][1]]
             best_similarity == SeqMax(similarities)
             best_match_idx == IndexOf(similarities, best_similarity)
         IN RatedResult(QuantizeDeepFace(model_name, best_similarity), best_similarity,
                        names[best_match_idx], DictZip(names, similarities),
                        similarities,
                        {<<embedding.tag, benchmarks[k][2].tag>> : k \in 1..Len(benchmarks)})

----------------------------------------------------------------------------
(* FaceMatcher (face_matcher.py) *)

\* the loop of detect_face: the index of the first detection of the highest
\* confidence above 0.5, or 0 when there is none
RECURSIVE BestBoxFrom(_, _, _, _)
BestBoxFrom(dets, k, best_confidence, best) ==
    IF k > Len(dets) THEN best
    ELSE IF dets[k].confidence > Thr(50) /\ dets[k].confidence > best_confidence
         THEN BestBoxFrom(dets, k + 1, dets[k].confidence, k)
         ELSE BestBoxFrom(dets, k + 1, best_confidence, best)

\* FaceMatcher.detect_face: None, or the crop of the most confident box
DetectFace(i) ==
    IF ~Readable(i) THEN None
    ELSE LET dets == NetDetections(i)
             best == BestBoxFrom(dets, 1, 0, 0)
         IN IF best = 0 THEN None
            ELSE IF RegionSize(SliceRegion(dets[best].box)) > 0
                 THEN <<[img |-> i, region |-> SliceRegion(dets[best].box)]>>
                 ELSE None

\* compute_histogram: the hue/saturation histogram after cv2.normalize (L2)
ComputeHistogram(face) == Descriptor("histogram", Normalized(CropHueSatHistogram(face)))

\* cv2.compareHist(a, b, HISTCMP_CORREL): the correlation coefficient, and 1
\* when a variance vanishes
HistCorrelation(a, b) ==
    LET n  == Len(a.vec)
        c  == n * Dot(a.vec, b.vec) - SeqSum(a.vec) * SeqSum(b.vec)
        va == n * Dot(a.vec, a.vec) - SeqSum(a.vec) * SeqSum(a.vec)
        vb == n * Dot(b.vec, b.vec) - SeqSum(b.vec) * SeqSum(b.vec)
    IN IF va * vb = 0 THEN Scale ELSE (c * Scale) \div ISqrt(va * vb)

\* np.mean(similarities)
Mean(sims) == SeqSum(sims) \div Len(sims)

QuantizeHistogram(s) ==
    IF s > Thr(85) THEN 5
    ELSE IF s > Thr(75) THEN 4
    ELSE IF s > Thr(65) THEN 3
    ELSE IF s > Thr(55) THEN 2
    ELSE 1

\* FaceMatcher.compare_face(image_path): the rating alone is returned
V1CompareFace(descriptors, i) ==
    IF descriptors = <<>> THEN [ErrorResult("No benchmarks") EXCEPT !.keys = {}]
    ELSE IF DetectFace(i) = None THEN [ErrorResult("No face detected") EXCEPT !.keys = {}]
    ELSE LET descriptor == ComputeHistogram(DetectFace(i)[1])
             similarities == [k \in 1..Len(descriptors) |->
                                 HistCorrelation(descriptor, descriptors[k])]
             avg_sim == Mean(similarities)
         IN [rating |-> QuantizeHistogram(avg_sim), keys |-> {}, error |-> "",
             raised |-> "",
             best_similarity |-> 0, best_match |-> "", all_similarities |-> EmptyDict,
             similarities |-> similarities, score |-> avg_sim,
             compared |-> {<<descriptor.tag, descriptors[k].tag>> : k \in 1..Len(descriptors)}]

----------------------------------------------------------------------------
(* One matcher object and the calls made on it.                            *)

VARIABLES
    cls,                    \* the class of the matcher object
    model_name,             \* FaceMatcherDeepFace.model_name
    distance_metric,        \* FaceMatcherDeepFace.distance_metric
    benchmark_descriptors,  \* FaceMatcher.benchmark_descriptors
    benchmark_embeddings,   \* FaceMatcherV2.benchmark_embeddings
    benchmark_names,        \* FaceMatcherV2.benchmark_names
    benchmarks,             \* FaceMatcherDeepFace.benchmarks
    last,                   \* the last call on the matcher and what it returned
    before,                 \* the benchmark lists as they were when the last call began
    batch_pc,               \* where a batch_compare call stands
    image_paths,            \* batch_compare: its argument
    batch_i,                \* batch_compare: the items processed so far
    results,                \* batch_compare: the dict results
    progress,               \* the calls of progress_callback so far
    probe,                  \* a threshold table applied on its own: inputs and ratings
    benchmark_photos,       \* MainWindow.benchmark_photos
    photos,                 \* run_face_similarity_analysis: photos
    face_similarity,        \* the column face_similarity of the table photos
    loaded,                 \* run_face_similarity_analysis: benchmark_embeddings
    analysis_pc,            \* where a run_face_similarity_analysis call stands
    analysis_i,             \* run_face_similarity_analysis: the photos passed so far
    canceled,               \* progress.wasCanceled()
    pressed,                \* the press of the dialog's Cancel button, if any
    matcher_type            \* FaceMatchingTab.matcher_type

batch_vars == <<batch_pc, image_paths, batch_i, results, progress>>

analysis_vars == <<benchmark_photos, photos, face_similarity, loaded, analysis_pc,
                   analysis_i, canceled, pressed, matcher_type>>

\* no press of Cancel; a press is written with the number of photos done and the
\* place of the run at the time, and waits in the event queue (queued) until
\* the events are processed
NoPress == [queued |-> FALSE, done |-> -1, during |-> ""]

vars == <<cls, model_name, distance_metric, benchmark_descriptors,
          benchmark_embeddings, benchmark_names, benchmarks, last, before, batch_vars,
          probe, analysis_vars>>

\* the lists that hold the benchmark set of the matcher, whatever its class
BenchmarkLists ==
    [benchmark_descriptors |-> benchmark_descriptors,
     benchmark_embeddings |-> benchmark_embeddings,
     benchmark_names |-> benchmark_names,
     benchmarks |-> benchmarks]

Classes == {"FaceMatcher", "FaceMatcherV2", "FaceMatcherDeepFace"}

\* the names callers give a benchmark; "benchmark" is the default
Names == {"benchmark", "Benchmark_1"}

NoProbe == [table |-> "", s1 |-> 0, s2 |-> 0, ratings |-> <<>>]

NoCall == [raised |-> "", value |-> 0, tags |-> <<"", "">>]

Call(op, i, name, ok, result, call) ==
    [op |-> op, image |-> i, name |-> name, ok |-> ok, result |-> result, call |-> call]

\* the number of entries of the matcher's benchmark set
BenchmarkCount ==
    CASE cls = "FaceMatcher"   -> Len(benchmark_descriptors)
      [] cls = "FaceMatcherV2" -> Len(benchmark_embeddings)
      [] OTHER                 -> Len(benchmarks)

\* __init__ of the three classes: the lists start empty
InitMatcher ==
    /\ cls \in Classes
    /\ model_name \in (IF cls = "FaceMatcherDeepFace" THEN Models ELSE {""})
    /\ distance_metric \in (IF cls = "FaceMatcherDeepFace" THEN Metrics ELSE {""})
    /\ benchmark_descriptors = <<>>
    /\ benchmark_embeddings = <<>>
    /\ benchmark_names = <<>>
    /\ benchmarks = <<>>
    /\ last = Call("__init__", 0, "", TRUE, ErrorResult(""), NoCall)
    /\ before = BenchmarkLists
    /\ batch_pc = "idle"
    /\ image_paths = <<>>
    /\ batch_i = 0
    /\ results = EmptyDict
    /\ progress = <<>>

\* a main window that has run no analysis, over an empty library
InitLibrary ==
    /\ benchmark_photos = <<>>
    /\ photos = <<>>
    /\ face_similarity = EmptyDict
    /\ loaded = <<>>
    /\ analysis_pc = "idle"
    /\ analysis_i = 0
    /\ canceled = FALSE
    /\ pressed = NoPress
    /\ matcher_type = "opencv"

Init ==
    /\ InitMatcher
    /\ InitLibrary
    /\ probe = NoProbe

\* FaceMatcher.add_benchmark(image_path)
V1AddBenchmark(i) ==
    /\ cls = "FaceMatcher"
    /\ batch_pc = "idle"
    /\ Len(benchmark_descriptors) < MaxBenchmarks
    /\ IF DetectFace(i) # None
       THEN /\ benchmark_descriptors' =
                   Append(benchmark_descriptors, ComputeHistogram(DetectFace(i)[1]))
            /\ last' = Call("add_benchmark", i, "", TRUE, ErrorResult(""), NoCall)
       ELSE /\ UNCHANGED benchmark_descriptors
            /\ last' = Call("add_benchmark", i, "", FALSE, ErrorResult(""), NoCall)
    /\ before' = BenchmarkLists
    /\ UNCHANGED batch_vars
    /\ UNCHANGED analysis_vars
    /\ UNCHANGED <<probe, cls, model_name, distance_metric, benchmark_embeddings,
                   benchmark_names, benchmarks>>

\* an add_benchmark that stores every entry under the default name
V2AddBenchmarkUnnamed(i, name) ==
    /\ cls = "FaceMatcherV2"
    /\ batch_pc = "idle"
    /\ Len(benchmark_embeddings) < MaxBenchmarks
    /\ IF DetectFaces(i) = None \/ Len(DetectFaces(i)) = 0
       THEN /\ UNCHANGED <<benchmark_embeddings, benchmark_names>>
            /\ last' = Call("add_benchmark", i, name, FALSE, ErrorResult(""), NoCall)
       ELSE /\ benchmark_embeddings' =
                   Append(benchmark_embeddings, ComputeEmbedding(DetectFaces(i)[1]))
            /\ benchmark_names' = Append(benchmark_names, "benchmark")
            /\ last' = Call("add_benchmark", i, name, TRUE, ErrorResult(""), NoCall)
    /\ before' = BenchmarkLists
    /\ UNCHANGED batch_vars
    /\ UNCHANGED analysis_vars
    /\ UNCHANGED <<probe, cls, model_name, distance_metric, benchmark_descriptors, benchmarks>>

\* an add_benchmark that puts the new entry in front of the earlier ones
V2AddBenchmarkAtFront(i, name) ==
    /\ cls = "FaceMatcherV2"
    /\ batch_pc = "idle"
    /\ Len(benchmark_embeddings) < MaxBenchmarks
    /\ IF DetectFaces(i) = None \/ Len(DetectFaces(i)) = 0
       THEN /\ UNCHANGED <<benchmark_embeddings, benchmark_names>>
            /\ last' = Call("add_benchmark", i, name, FALSE, ErrorResult(""), NoCall)
       ELSE /\ benchmark_embeddings' =
                   <<ComputeEmbedding(DetectFaces(i)[1])>> \o benchmark_embeddings
            /\ benchmark_names' = <<name>> \o benchmark_names
            /\ last' = Call("add_benchmark", i, name, TRUE, ErrorResult(""), NoCall)
    /\ before' = BenchmarkLists
    /\ UNCHANGED batch_vars
    /\ UNCHANGED analysis_vars
    /\ UNCHANGED <<probe, cls, model_name, distance_metric, benchmark_descriptors, benchmarks>>

\* FaceMatcherV2.add_benchmark(image_path, name)
V2AddBenchmark(i, name) ==
    /\ cls = "FaceMatcherV2"
    /\ batch_pc = "idle"
    /\ Len(benchmark_embeddings) < MaxBenchmarks
    /\ IF DetectFaces(i) = None \/ Len(DetectFaces(i)) = 0
       THEN /\ UNCHANGED <<benchmark_embeddings, benchmark_names>>
            /\ last' = Call("add_benchmark", i, name, FALSE, ErrorResult(""), NoCall)
       ELSE /\ benchmark_embeddings' =
                   Append(benchmark_embeddings, ComputeEmbedding(DetectFaces(i)[1]))
            /\ benchmark_names' = Append(benchmark_names, name)
            /\ last' = Call("add_benchmark", i, name, TRUE, ErrorResult(""), NoCall)
    /\ before' = BenchmarkLists
    /\ UNCHANGED batch_vars
    /\ UNCHANGED analysis_vars
    /\ UNCHANGED <<probe, cls, model_name, distance_metric, benchmark_descriptors, benchmarks>>

\* FaceMatcherDeepFace.add_benchmark(image_path, name)
DeepFaceAddBenchmark(i, name) ==
    /\ cls = "FaceMatcherDeepFace"
    /\ batch_pc = "idle"
    /\ Len(benchmarks) < MaxBenchmarks
    /\ IF GetEmbedding(model_name, i) = NoDescriptor
       THEN /\ UNCHANGED benchmarks
            /\ last' = Call("add_benchmark", i, name, FALSE, ErrorResult(""), NoCall)
       ELSE /\ benchmarks' = Append(benchmarks, <<name, GetEmbedding(model_name, i)>>)
            /\ last' = Call("add_benchmark", i, name, TRUE, ErrorResult(""), NoCall)
    /\ before' = BenchmarkLists
    /\ UNCHANGED batch_vars
    /\ UNCHANGED analysis_vars
    /\ UNCHANGED <<probe, cls, model_name, distance_metric, benchmark_descriptors,
                   benchmark_embeddings, benchmark_names>>

\* a clear_benchmarks that empties the embeddings and keeps the names
V2ClearEmbeddingsOnly ==
    /\ cls = "FaceMatcherV2"
    /\ batch_pc = "idle"
    /\ benchmark_embeddings' = <<>>
    /\ UNCHANGED benchmark_names
    /\ last' = Call("clear_benchmarks", 0, "", TRUE, ErrorResult(""), NoCall)
    /\ before' = BenchmarkLists
    /\ UNCHANGED batch_vars
    /\ UNCHANGED analysis_vars
    /\ UNCHANGED <<probe, cls, model_name, distance_metric, benchmark_descriptors, benchmarks>>

\* FaceMatcherV2.clear_benchmarks()
V2ClearBenchmarks ==
    /\ cls = "FaceMatcherV2"
    /\ batch_pc = "idle"
    /\ benchmark_embeddings' = <<>>
    /\ benchmark_names' = <<>>
    /\ last' = Call("clear_benchmarks", 0, "", TRUE, ErrorResult(""), NoCall)
    /\ before' = BenchmarkLists
    /\ UNCHANGED batch_vars
    /\ UNCHANGED analysis_vars
    /\ UNCHANGED <<probe, cls, model_name, distance_metric, benchmark_descriptors, benchmarks>>

\* FaceMatcherDeepFace.clear_benchmarks()
DeepFaceClearBenchmarks ==
    /\ cls = "FaceMatcherDeepFace"
    /\ batch_pc = "idle"
    /\ benchmarks' = <<>>
    /\ last' = Call("clear_benchmarks", 0, "", TRUE, ErrorResult(""), NoCall)
    /\ before' = BenchmarkLists
    /\ UNCHANGED batch_vars
    /\ UNCHANGED analysis_vars
    /\ UNCHANGED <<probe, cls, model_name, distance_metric, benchmark_descriptors,
                   benchmark_embeddings, benchmark_names>>

\* matcher.model_name = m: the attribute is read anew by every _get_embedding
\* call, so a caller that assigns it changes the model of the embeddings that
\* later calls extract; the benchmarks already stored stay as they are
SetModelName(m) ==
    /\ cls = "FaceMatcherDeepFace"
    /\ batch_pc = "idle"
    /\ m # model_name
    /\ model_name' = m
    /\ last' = Call("model_name", 0, m, TRUE, ErrorResult(""), NoCall)
    /\ before' = BenchmarkLists
    /\ UNCHANGED batch_vars
    /\ UNCHANGED analysis_vars
    /\ UNCHANGED <<probe, cls, distance_metric, benchmark_descriptors,
                   benchmark_embeddings, benchmark_names, benchmarks>>

\* compare_face(image_path) of the matcher's class
CompareFaceResult(i) ==
    CASE cls = "FaceMatcher"   -> V1CompareFace(benchmark_descriptors, i)
      [] cls = "FaceMatcherV2" -> V2CompareFace(benchmark_embeddings, benchmark_names, i)
      [] OTHER                 -> DeepFaceCompareFace(model_name, distance_metric, benchmarks, i)

\* a compare_face that keeps the descriptor of the image it compared as a new
\* entry of the set
CompareFaceAndKeep(i) ==
    /\ batch_pc = "idle"
    /\ last' = Call("compare_face", i, "", TRUE, CompareFaceResult(i), NoCall)
    /\ before' = BenchmarkLists
    /\ IF cls = "FaceMatcherV2" /\ DetectFaces(i) # None /\ Len(DetectFaces(i)) > 0
       THEN /\ benchmark_embeddings' =
                   Append(benchmark_embeddings, ComputeEmbedding(DetectFaces(i)[1]))
            /\ benchmark_names' = Append(benchmark_names, "query")
       ELSE UNCHANGED <<benchmark_embeddings, benchmark_names>>
    /\ UNCHANGED batch_vars
    /\ UNCHANGED analysis_vars
    /\ UNCHANGED <<probe, cls, model_name, distance_metric, benchmark_descriptors,
                   benchmarks>>

\* a call of compare_face: the matcher is left as it was
CompareFace(i) ==
    /\ batch_pc = "idle"
    /\ last' = Call("compare_face", i, "", TRUE, CompareFaceResult(i), NoCall)
    /\ before' = BenchmarkLists
    /\ UNCHANGED batch_vars
    /\ UNCHANGED analysis_vars
    /\ UNCHANGED <<probe, cls, model_name, distance_metric, benchmark_descriptors,
                   benchmark_embeddings, benchmark_names, benchmarks>>

\* a call of FaceMatcherDeepFace._compute_similarity on two embeddings the
\* service produced, under any of its models
ComputeSimilarityOf(m1, i, m2, j) ==
    /\ cls = "FaceMatcherDeepFace"
    /\ batch_pc = "idle"
    /\ LET a == Descriptor(m1, ServiceEmbedding(m1, i))
           b == Descriptor(m2, ServiceEmbedding(m2, j))
           r == ComputeSimilarityCall(distance_metric, a, b)
       IN last' = Call("_compute_similarity", i, "", TRUE, ErrorResult(""),
                       [raised |-> r.raised, value |-> r.value, tags |-> <<m1, m2>>])
    /\ before' = BenchmarkLists
    /\ UNCHANGED batch_vars
    /\ UNCHANGED analysis_vars
    /\ UNCHANGED <<probe, cls, model_name, distance_metric, benchmark_descriptors,
                   benchmark_embeddings, benchmark_names, benchmarks>>

Next ==
    \/ \E i \in Images : V1AddBenchmark(i)
    \/ \E i \in Images, name \in Names : V2AddBenchmark(i, name)
    \/ \E i \in Images, name \in Names : DeepFaceAddBenchmark(i, name)
    \/ V2ClearBenchmarks
    \/ DeepFaceClearBenchmarks
    \/ \E i \in Images : CompareFace(i)

Spec == Init /\ [][Next]_vars

\* The calls on a matcher, with a caller that may assign model_name of a
\* FaceMatcherDeepFace between calls.
NextRetag ==
    \/ Next
    \/ \E m \in Models : SetModelName(m)

SpecRetag == Init /\ [][NextRetag]_vars

\* The similarity function called on its own.
NextSimilarity ==
    \E m1 \in Models, m2 \in Models, i \in Images \ {0}, j \in Images \ {0} :
        ComputeSimilarityOf(m1, i, m2, j)

SpecSimilarity == Init /\ [][NextSimilarity]_vars

----------------------------------------------------------------------------
(* batch_compare of FaceMatcherV2 and FaceMatcherDeepFace, one loop step   *)
(* at a time.  The caller passes a progress callback; batch_compare takes  *)
(* no cancellation argument and reads no flag.                             *)

RECURSIVE PathLists(_, _)
\* the lists of at most n distinct paths taken from S
PathLists(S, n) ==
    IF n = 0 THEN {<<>>}
    ELSE LET shorter == PathLists(S, n - 1)
         IN shorter \cup UNION {{Append(q, x) : x \in S \ {q[k] : k \in 1..Len(q)}} :
                                    q \in shorter}

\* DictPut that stores only a rating that is not 0
DictPutRated(d, k, v) ==
    IF v = 0 THEN d ELSE [j \in DOMAIN d \cup {k} |-> IF j = k THEN v ELSE d[j]]

\* results[str(img_path)] = rating
DictPut(d, k, v) == [j \in DOMAIN d \cup {k} |-> IF j = k THEN v ELSE d[j]]

\* results = {}; total = len(image_paths)
BatchStart(paths) ==
    /\ batch_pc = "idle"
    /\ cls \in {"FaceMatcherV2", "FaceMatcherDeepFace"}
    /\ batch_pc' = "loop"
    /\ image_paths' = paths
    /\ batch_i' = 0
    /\ results' = EmptyDict
    /\ progress' = <<>>
    /\ last' = Call("batch_compare", 0, "", TRUE, ErrorResult(""), NoCall)
    /\ before' = BenchmarkLists
    /\ UNCHANGED analysis_vars
    /\ UNCHANGED <<probe, cls, model_name, distance_metric, benchmark_descriptors,
                   benchmark_embeddings, benchmark_names, benchmarks>>

\* BatchProgress reporting the loop index i in place of i + 1
BatchProgressZeroBased ==
    /\ batch_pc = "loop"
    /\ batch_i < Len(image_paths)
    /\ progress' = Append(progress,
                          [index |-> batch_i, total |-> Len(image_paths),
                           item |-> image_paths[batch_i + 1], done |-> DOMAIN results])
    /\ batch_pc' = "compare"
    /\ UNCHANGED analysis_vars
    /\ UNCHANGED <<probe, before, cls, model_name, distance_metric, benchmark_descriptors,
                   benchmark_embeddings, benchmark_names, benchmarks, last,
                   image_paths, batch_i, results>>

\* progress_callback(i + 1, total, Path(img_path).name); done is the set of
\* keys results holds when the callback runs
BatchProgress ==
    /\ batch_pc = "loop"
    /\ batch_i < Len(image_paths)
    /\ progress' = Append(progress,
                          [index |-> batch_i + 1, total |-> Len(image_paths),
                           item |-> image_paths[batch_i + 1], done |-> DOMAIN results])
    /\ batch_pc' = "compare"
    /\ UNCHANGED analysis_vars
    /\ UNCHANGED <<probe, before, cls, model_name, distance_metric, benchmark_descriptors,
                   benchmark_embeddings, benchmark_names, benchmarks, last,
                   image_paths, batch_i, results>>

\* a BatchCompare whose rating is never below the rating of the item before
BatchCompareCarried ==
    /\ batch_pc = "compare"
    /\ results' = DictPut(results, image_paths[batch_i + 1],
                          Max2(CompareFaceResult(image_paths[batch_i + 1]).rating,
                               IF batch_i = 0 THEN 0 ELSE results[image_paths[batch_i]]))
    /\ batch_i' = batch_i + 1
    /\ batch_pc' = "loop"
    /\ UNCHANGED analysis_vars
    /\ UNCHANGED <<probe, before, cls, model_name, distance_metric, benchmark_descriptors,
                   benchmark_embeddings, benchmark_names, benchmarks, last,
                   image_paths, progress>>

\* rating = self.compare_face(img_path); results[str(img_path)] = rating
BatchCompare ==
    /\ batch_pc = "compare"
    /\ results' = DictPut(results, image_paths[batch_i + 1],
                          CompareFaceResult(image_paths[batch_i + 1]).rating)
    /\ batch_i' = batch_i + 1
    /\ batch_pc' = "loop"
    /\ UNCHANGED analysis_vars
    /\ UNCHANGED <<probe, before, cls, model_name, distance_metric, benchmark_descriptors,
                   benchmark_embeddings, benchmark_names, benchmarks, last,
                   image_paths, progress>>

\* return results
BatchReturn ==
    /\ batch_pc = "loop"
    /\ batch_i = Len(image_paths)
    /\ batch_pc' = "returned"
    /\ UNCHANGED analysis_vars
    /\ UNCHANGED <<probe, before, cls, model_name, distance_metric, benchmark_descriptors,
                   benchmark_embeddings, benchmark_names, benchmarks, last,
                   image_paths, batch_i, results, progress>>

\* the caller is done with the returned dict
BatchDone ==
    /\ batch_pc = "returned"
    /\ batch_pc' = "idle"
    /\ image_paths' = <<>>
    /\ batch_i' = 0
    /\ results' = EmptyDict
    /\ progress' = <<>>
    /\ UNCHANGED analysis_vars
    /\ UNCHANGED <<probe, before, cls, model_name, distance_metric, benchmark_descriptors,
                   benchmark_embeddings, benchmark_names, benchmarks, last>>

\* a matcher built with the constructor's default arguments
InitBatch ==
    /\ Init
    /\ cls \in {"FaceMatcherV2", "FaceMatcherDeepFace"}
    /\ cls = "FaceMatcherDeepFace" => model_name = "Facenet" /\ distance_metric = "cosine"

NextBatch ==
    \/ \E i \in Images : V2AddBenchmark(i, "benchmark")
    \/ \E i \in Images : DeepFaceAddBenchmark(i, "benchmark")
    \/ V2ClearBenchmarks
    \/ DeepFaceClearBenchmarks
    \/ \E i \in Images : CompareFace(i)
    \/ \E paths \in PathLists(Images, MaxBatch) : BatchStart(paths)
    \/ BatchProgress
    \/ BatchCompare
    \/ BatchReturn
    \/ BatchDone

SpecBatch == InitBatch /\ [][NextBatch]_vars

----------------------------------------------------------------------------
(* The threshold tables applied on their own to two similarities.          *)

Tables == {"histogram", "handcrafted", "Facenet", "ArcFace", "generic"}

\* the rating a table gives a similarity
QuantizeBy(table, s) ==
    CASE table = "histogram"   -> QuantizeHistogram(s)
      [] table = "handcrafted" -> QuantizeHandcrafted(s)
      [] table = "Facenet"     -> QuantizeDeepFace("Facenet", s)
      [] table = "ArcFace"     -> QuantizeDeepFace("ArcFace", s)
      [] OTHER                 -> QuantizeDeepFace("OpenFace", s)

\* the similarities a metric can produce, from -1 to 1
Similarities == (-Scale)..Scale

\* a table and two similarities s1 <= s2 to rate
InitQuantize ==
    /\ InitMatcher
    /\ InitLibrary
    /\ cls = "FaceMatcherV2"
    /\ probe \in {[table |-> t, s1 |-> s1, s2 |-> s2, ratings |-> <<>>] :
                     t \in Tables, s1 \in Similarities, s2 \in Similarities}
    /\ probe.s1 <= probe.s2

ApplyTable ==
    /\ probe.ratings = <<>>
    /\ probe' = [probe EXCEPT !.ratings = << QuantizeBy(probe.table, probe.s1),
                                            QuantizeBy(probe.table, probe.s2) >>]
    /\ UNCHANGED analysis_vars
    /\ UNCHANGED <<cls, model_name, distance_metric, benchmark_descriptors,
                   benchmark_embeddings, benchmark_names, benchmarks, last, before,
                   batch_vars>>

NextQuantize == ApplyTable

SpecQuantize == InitQuantize /\ [][NextQuantize]_vars

----------------------------------------------------------------------------
(* MainWindow.run_face_similarity_analysis: the analysis of the whole photo *)
(* library against the reference photos, with its progress dialog.  A photo *)
(* is written as the image its file holds.                                  *)

matcher_vars == <<cls, model_name, distance_metric, benchmark_descriptors,
                  benchmark_embeddings, benchmark_names, benchmarks, last, before>>

\* DeepFace.represent(img_path, model_name="ArcFace",
\*                    detector_backend="retinaface", enforce_detection=False)
AnalysisRepresent(i) == DeepFaceRepresent(i, "ArcFace", FALSE)

\* the loop over self.benchmark_photos: the embedding of every reference photo
\* for which represent returns a list that is not empty; a photo for which it
\* raises is logged and passed over
RECURSIVE LoadBenchmarkEmbeddings(_)
LoadBenchmarkEmbeddings(paths) ==
    IF paths = <<>> THEN <<>>
    ELSE LET rep == AnalysisRepresent(Head(paths))
             rest == LoadBenchmarkEmbeddings(Tail(paths))
         IN IF rep.raised = "" /\ Len(rep.result) > 0
            THEN <<rep.result[1].embedding>> \o rest
            ELSE rest

\* sim = dot(embedding, bench) / denom if denom > 0 else 0.0
AnalysisSimilarity(embedding, bench) ==
    IF Dot(embedding, embedding) * Dot(bench, bench) = 0 THEN 0
    ELSE (Dot(embedding, bench) * Scale) \div ISqrt(Dot(embedding, embedding) * Dot(bench, bench))

\* the rating of avg_sim: 0.80 / 0.70 / 0.60 / 0.50, each bound included
QuantizeAnalysis(avg_sim) ==
    IF avg_sim >= Thr(80) THEN 5
    ELSE IF avg_sim >= Thr(70) THEN 4
    ELSE IF avg_sim >= Thr(60) THEN 3
    ELSE IF avg_sim >= Thr(50) THEN 2
    ELSE 1

\* the body of the try of one photo: the value written to face_similarity
AnalysisRating(bench, i) ==
    LET rep == AnalysisRepresent(i)
    IN IF rep.raised # "" THEN 0
       ELSE IF rep.result = <<>> THEN 0
       ELSE LET embedding == rep.result[1].embedding
                sims == [k \in 1..Len(bench) |-> AnalysisSimilarity(embedding, bench[k])]
                avg_sim == IF sims = <<>> THEN 0 ELSE Mean(sims)
            IN QuantizeAnalysis(avg_sim)

\* from the entry of the method to the creation of the progress dialog: the method
\* returns when there is no reference photo or none gave an embedding
AnalysisStart ==
    /\ analysis_pc = "idle"
    /\ canceled' = FALSE
    /\ pressed' = NoPress
    /\ analysis_i' = 0
    /\ IF benchmark_photos = <<>>
       THEN /\ analysis_pc' = "returned"
            /\ UNCHANGED loaded
       ELSE /\ loaded' = LoadBenchmarkEmbeddings(benchmark_photos)
            /\ analysis_pc' = (IF loaded' = <<>> THEN "returned" ELSE "loop")
    /\ UNCHANGED <<benchmark_photos, photos, face_similarity>>
    /\ UNCHANGED <<matcher_vars, batch_vars, probe, matcher_type>>

\* the top of the loop over photos: it ends after the last photo, or at
\* if progress.wasCanceled(): break
AnalysisLoop ==
    /\ analysis_pc = "loop"
    /\ analysis_pc' = (IF analysis_i = Len(photos) \/ canceled THEN "complete" ELSE "events")
    /\ UNCHANGED <<benchmark_photos, photos, face_similarity, loaded, analysis_i,
                   canceled, pressed>>
    /\ UNCHANGED <<matcher_vars, batch_vars, probe, matcher_type>>

\* the user presses Cancel in the progress dialog while the run is in its loop;
\* the press waits in the event queue
PressCancel ==
    /\ analysis_pc \in {"loop", "events", "rate"}
    /\ pressed = NoPress
    /\ pressed' = [queued |-> TRUE, done |-> analysis_i, during |-> analysis_pc]
    /\ UNCHANGED <<benchmark_photos, photos, face_similarity, loaded, analysis_pc,
                   analysis_i, canceled>>
    /\ UNCHANGED <<matcher_vars, batch_vars, probe, matcher_type>>

\* progress.setValue(i); progress.setLabelText(...); QApplication.processEvents():
\* the events waiting are handled, and a press of Cancel among them sets the
\* dialog's flag
AnalysisProcessEvents ==
    /\ analysis_pc = "events"
    /\ canceled' = (canceled \/ pressed.queued)
    /\ pressed' = [pressed EXCEPT !.queued = FALSE]
    /\ analysis_pc' = "rate"
    /\ UNCHANGED <<benchmark_photos, photos, face_similarity, loaded, analysis_i>>
    /\ UNCHANGED <<matcher_vars, batch_vars, probe, matcher_type>>

\* the try of one photo, with db.update_photo_metadata(photo['id'],
\* {'face_similarity': rating})
AnalysisRate ==
    /\ analysis_pc = "rate"
    /\ face_similarity' = DictPut(face_similarity, photos[analysis_i + 1],
                                  AnalysisRating(loaded, photos[analysis_i + 1]))
    /\ analysis_i' = analysis_i + 1
    /\ analysis_pc' = "loop"
    /\ UNCHANGED <<benchmark_photos, photos, loaded, canceled, pressed>>
    /\ UNCHANGED <<matcher_vars, batch_vars, probe, matcher_type>>

\* after the loop: progress.setValue(len(photos)), the results are shown again
\* and the method returns
AnalysisComplete ==
    /\ analysis_pc = "complete"
    /\ analysis_pc' = "returned"
    /\ UNCHANGED <<benchmark_photos, photos, face_similarity, loaded, analysis_i,
                   canceled, pressed>>
    /\ UNCHANGED <<matcher_vars, batch_vars, probe, matcher_type>>

\* the ratings a photo can hold before a run: the column's default and a rating
PriorRatings == {0, 5}

\* a library of photos, each with a rating, and a list of reference photos
InitAnalysis ==
    /\ InitMatcher
    /\ cls = "FaceMatcherV2"
    /\ probe = NoProbe
    /\ benchmark_photos \in PathLists(Images, MaxBenchmarks)
    /\ photos \in PathLists(Images, MaxBatch)
    /\ \E prior \in PriorRatings :
           face_similarity = [i \in {photos[k] : k \in 1..Len(photos)} |-> prior]
    /\ loaded = <<>>
    /\ analysis_pc = "idle"
    /\ analysis_i = 0
    /\ canceled = FALSE
    /\ pressed = NoPress
    /\ matcher_type = "opencv"

NextAnalysis ==
    \/ AnalysisStart
    \/ AnalysisLoop
    \/ PressCancel
    \/ AnalysisProcessEvents
    \/ AnalysisRate
    \/ AnalysisComplete

SpecAnalysis == InitAnalysis /\ [][NextAnalysis]_vars

----------------------------------------------------------------------------
(* FaceMatchingTab (ui/face_matching_tab.py): the tab holds a matcher       *)
(* object (face_matcher, or None), the kind selected in its combo box       *)
(* (matcher_type) and its own list of reference photos.  cls is the class   *)
(* of the object in face_matcher, "None" when there is none.                *)

\* os.path.exists(path): -1 is a path to no file
Exists(p) == p # -1

\* the paths the reference list is made of
TabReferencePaths == {-1, 1, 2, 3}

\* the paths the library is made of: a photo with no face and a photo with one
TabLibraryPaths == {1, 2}

\* the class of the object face_matcher holds after _initialize_matcher with
\* the combo box at `selected`: FaceMatcherV2.__init__ raises when the
\* detector's model files are missing (built = FALSE); the exception is caught
\* and face_matcher keeps what it held
InitializedClass(selected, built) ==
    IF selected = "deepface" THEN "FaceMatcherDeepFace"
    ELSE IF built THEN "FaceMatcherV2"
    ELSE cls

\* _on_matcher_changed: the selection of the combo box changes and
\* _initialize_matcher runs; matcher_type is assigned before the matcher is
\* constructed
OnMatcherChanged(selected, built) ==
    /\ selected # matcher_type
    /\ matcher_type' = selected
    /\ cls' = InitializedClass(selected, built)
    /\ IF selected = "deepface" \/ built
       THEN /\ model_name' = (IF selected = "deepface" THEN "Facenet" ELSE "")
            /\ distance_metric' = (IF selected = "deepface" THEN "cosine" ELSE "")
            /\ benchmark_embeddings' = <<>>
            /\ benchmark_names' = <<>>
            /\ benchmarks' = <<>>
       ELSE UNCHANGED <<model_name, distance_metric, benchmark_embeddings,
                        benchmark_names, benchmarks>>
    /\ analysis_pc' = "idle"
    /\ analysis_i' = 0
    /\ UNCHANGED <<benchmark_descriptors, last, before, batch_vars, probe>>
    /\ UNCHANGED <<benchmark_photos, photos, face_similarity, loaded, canceled, pressed>>

\* add_benchmark_photos with one file chosen: a file already listed is not
\* added again
AddBenchmarkPhotos(file) ==
    /\ Len(benchmark_photos) < MaxBenchmarks
    /\ \A k \in 1..Len(benchmark_photos) : benchmark_photos[k] # file
    /\ benchmark_photos' = Append(benchmark_photos, file)
    /\ analysis_pc' = "idle"
    /\ analysis_i' = 0
    /\ UNCHANGED <<photos, face_similarity, loaded, canceled, pressed, matcher_type>>
    /\ UNCHANGED <<matcher_vars, batch_vars, probe>>

\* clear_benchmark_photos
ClearBenchmarkPhotos ==
    /\ benchmark_photos # <<>>
    /\ benchmark_photos' = <<>>
    /\ analysis_pc' = "idle"
    /\ analysis_i' = 0
    /\ UNCHANGED <<photos, face_similarity, loaded, canceled, pressed, matcher_type>>
    /\ UNCHANGED <<matcher_vars, batch_vars, probe>>

\* the descriptor add_benchmark of a matcher of class kind stores for a path,
\* NoDescriptor when it returns False
TabDescriptor(kind, path) ==
    IF kind = "FaceMatcherV2"
    THEN IF DetectFaces(path) = None \/ Len(DetectFaces(path)) = 0
         THEN NoDescriptor
         ELSE ComputeEmbedding(DetectFaces(path)[1])
    ELSE GetEmbedding("Facenet", path)

\* clear_benchmarks() and the loop over enumerate(self.benchmark_photos, 1)
\* from position k on: the entries (name, descriptor) the matcher then holds
RECURSIVE TabLoad(_, _, _)
TabLoad(kind, paths, k) ==
    IF k > Len(paths) THEN <<>>
    ELSE IF Exists(paths[k]) /\ TabDescriptor(kind, paths[k]) # NoDescriptor
         THEN <<<<"Benchmark_" \o ToString(k), TabDescriptor(kind, paths[k])>>>>
                  \o TabLoad(kind, paths, k + 1)
         ELSE TabLoad(kind, paths, k + 1)

\* self.face_matcher.compare_face(filepath, return_details=True) on a matcher
\* that holds entries
TabCompare(kind, entries, i) ==
    IF kind = "FaceMatcherV2"
    THEN V2CompareFace([k \in 1..Len(entries) |-> entries[k][2]],
                       [k \in 1..Len(entries) |-> entries[k][1]], i)
    ELSE DeepFaceCompareFace("Facenet", "cosine", entries, i)

\* the loop over the photos of the library from position k on.  A photo whose
\* file is missing is passed over.  For a result without 'error' the loop calls
\* self.controller.db.update_photo(photo_id, face_match_rating=rating):
\* PhotoDatabase defines no update_photo, the call raises AttributeError and
\* the except of run_analysis ends the run.
RECURSIVE TabLoop(_, _, _, _)
TabLoop(kind, entries, k, analyzed) ==
    IF k > Len(photos) THEN [outcome |-> "complete", analyzed |-> analyzed]
    ELSE IF ~Exists(photos[k]) THEN TabLoop(kind, entries, k + 1, analyzed)
    ELSE IF "error" \notin TabCompare(kind, entries, photos[k]).keys
         THEN [outcome |-> "failed", analyzed |-> analyzed]
         ELSE TabLoop(kind, entries, k + 1, analyzed + 1)

\* a run_analysis that adds the reference photos to the set the matcher holds
RunAnalysisNoClear(built) ==
    /\ batch_pc = "idle"
    /\ IF benchmark_photos = <<>>
       THEN /\ analysis_pc' = "no_benchmarks"
            /\ analysis_i' = 0
            /\ UNCHANGED <<cls, model_name, distance_metric, benchmark_embeddings,
                           benchmark_names, benchmarks>>
       ELSE LET kind == IF cls # "None" THEN cls
                        ELSE InitializedClass(matcher_type, built)
                held == IF cls = "FaceMatcherV2"
                        THEN [k \in 1..Len(benchmark_embeddings) |->
                                 <<benchmark_names[k], benchmark_embeddings[k]>>]
                        ELSE benchmarks
                entries == held \o TabLoad(kind, benchmark_photos, 1)
                loop == TabLoop(kind, entries, 1, 0)
            IN IF kind = "None"
               THEN /\ analysis_pc' = "failed"
                    /\ analysis_i' = 0
                    /\ UNCHANGED <<cls, model_name, distance_metric,
                                   benchmark_embeddings, benchmark_names, benchmarks>>
               ELSE /\ cls' = kind
                    /\ model_name' = (IF kind = "FaceMatcherDeepFace" THEN "Facenet" ELSE "")
                    /\ distance_metric' =
                           (IF kind = "FaceMatcherDeepFace" THEN "cosine" ELSE "")
                    /\ IF kind = "FaceMatcherV2"
                       THEN /\ benchmark_embeddings' =
                                   [k \in 1..Len(entries) |-> entries[k][2]]
                            /\ benchmark_names' =
                                   [k \in 1..Len(entries) |-> entries[k][1]]
                            /\ benchmarks' = <<>>
                       ELSE /\ benchmarks' = entries
                            /\ benchmark_embeddings' = <<>>
                            /\ benchmark_names' = <<>>
                    /\ analysis_pc' = loop.outcome
                    /\ analysis_i' = loop.analyzed
    /\ UNCHANGED <<benchmark_descriptors, last, before, batch_vars, probe>>
    /\ UNCHANGED <<benchmark_photos, photos, face_similarity, loaded, canceled, pressed,
                   matcher_type>>

\* run_analysis: analysis_pc tells how the call ended ("no_benchmarks": the
\* reference list is empty; "failed": the except branch; "complete") and
\* analysis_i is `analyzed`, both until the next event of the tab
RunAnalysis(built) ==
    /\ batch_pc = "idle"
    /\ IF benchmark_photos = <<>>
       THEN /\ analysis_pc' = "no_benchmarks"
            /\ analysis_i' = 0
            /\ UNCHANGED <<cls, model_name, distance_metric, benchmark_embeddings,
                           benchmark_names, benchmarks>>
       ELSE LET kind == IF cls # "None" THEN cls
                        ELSE InitializedClass(matcher_type, built)
                entries == TabLoad(kind, benchmark_photos, 1)
                loop == TabLoop(kind, entries, 1, 0)
            IN IF kind = "None"
               THEN /\ analysis_pc' = "failed"
                    /\ analysis_i' = 0
                    /\ UNCHANGED <<cls, model_name, distance_metric,
                                   benchmark_embeddings, benchmark_names, benchmarks>>
               ELSE /\ cls' = kind
                    /\ model_name' = (IF kind = "FaceMatcherDeepFace" THEN "Facenet" ELSE "")
                    /\ distance_metric' =
                           (IF kind = "FaceMatcherDeepFace" THEN "cosine" ELSE "")
                    /\ IF kind = "FaceMatcherV2"
                       THEN /\ benchmark_embeddings' =
                                   [k \in 1..Len(entries) |-> entries[k][2]]
                            /\ benchmark_names' =
                                   [k \in 1..Len(entries) |-> entries[k][1]]
                            /\ benchmarks' = <<>>
                       ELSE /\ benchmarks' = entries
                            /\ benchmark_embeddings' = <<>>
                            /\ benchmark_names' = <<>>
                    /\ analysis_pc' = loop.outcome
                    /\ analysis_i' = loop.analyzed
    /\ UNCHANGED <<benchmark_descriptors, last, before, batch_vars, probe>>
    /\ UNCHANGED <<benchmark_photos, photos, face_similarity, loaded, canceled, pressed,
                   matcher_type>>

\* the tab after __init__: the reference list comes from the settings, the
\* combo box shows "opencv" and _initialize_matcher has run once
InitTab ==
    /\ cls \in {"None", "FaceMatcherV2"}
    /\ model_name = ""
    /\ distance_metric = ""
    /\ benchmark_descriptors = <<>>
    /\ benchmark_embeddings = <<>>
    /\ benchmark_names = <<>>
    /\ benchmarks = <<>>
    /\ last = Call("__init__", 0, "", TRUE, ErrorResult(""), NoCall)
    /\ before = BenchmarkLists
    /\ batch_pc = "idle"
    /\ image_paths = <<>>
    /\ batch_i = 0
    /\ results = EmptyDict
    /\ progress = <<>>
    /\ probe = NoProbe
    /\ benchmark_photos \in PathLists(TabReferencePaths, MaxBenchmarks)
    /\ photos \in PathLists(TabLibraryPaths, MaxBatch)
    /\ \E prior \in PriorRatings :
           face_similarity = [i \in {photos[k] : k \in 1..Len(photos)} |-> prior]
    /\ loaded = <<>>
    /\ analysis_pc = "idle"
    /\ analysis_i = 0
    /\ canceled = FALSE
    /\ pressed = NoPress
    /\ matcher_type = "opencv"

NextTab ==
    \/ \E selected \in {"opencv", "deepface"}, built \in BOOLEAN :
           OnMatcherChanged(selected, built)
    \/ \E file \in TabReferencePaths : AddBenchmarkPhotos(file)
    \/ ClearBenchmarkPhotos
    \/ \E built \in BOOLEAN : RunAnalysis(built)

SpecTab == InitTab /\ [][NextTab]_vars

----------------------------------------------------------------------------
(* What the claims speak of, stated apart from the operators above.        *)

\* the detector finds a face in image i: a detection above the threshold whose
\* clipped region is not empty
NetFindsFace(i) ==
    /\ Readable(i)
    /\ \E k \in 1..Len(NetDetections(i)) :
           /\ NetDetections(i)[k].confidence > ConfidenceThreshold
           /\ RegionSize(ClipBox(NetDetections(i)[k].box)) > 0

\* the service reports a face in image i
ServiceFindsFace(model, i) ==
    /\ DeepFaceRepresent(i, model, TRUE).raised = ""
    /\ Len(DeepFaceRepresent(i, model, TRUE).result) > 0

\* the matcher detects a face in image i
FaceDetected(i) ==
    CASE cls = "FaceMatcher"   -> DetectFace(i) # None
      [] cls = "FaceMatcherV2" -> NetFindsFace(i)
      [] OTHER                 -> ServiceFindsFace(model_name, i)

\* the descriptor the matcher's strategy extracts from image i
QueryDescriptor(i) ==
    CASE cls = "FaceMatcher"   -> ComputeHistogram(DetectFace(i)[1])
      [] cls = "FaceMatcherV2" -> ComputeEmbedding(DetectFaces(i)[1])
      [] OTHER                 -> GetEmbedding(model_name, i)

\* the descriptor and the name of entry k of the benchmark set
EntryDescriptor(k) ==
    CASE cls = "FaceMatcher"   -> benchmark_descriptors[k]
      [] cls = "FaceMatcherV2" -> benchmark_embeddings[k]
      [] OTHER                 -> benchmarks[k][2]

EntryName(k) ==
    CASE cls = "FaceMatcherV2"       -> benchmark_names[k]
      [] cls = "FaceMatcherDeepFace" -> benchmarks[k][1]
      [] OTHER                       -> ""

\* the similarity of image i to entry k under the matcher's metric
EntrySimilarity(i, k) ==
    CASE cls = "FaceMatcher"   -> HistCorrelation(QueryDescriptor(i), EntryDescriptor(k))
      [] cls = "FaceMatcherV2" -> V2Similarity(QueryDescriptor(i), EntryDescriptor(k))
      [] OTHER                 -> ComputeSimilarity(distance_metric, QueryDescriptor(i),
                                                    EntryDescriptor(k))

\* the threshold table of the matcher
MatcherTable ==
    CASE cls = "FaceMatcher"      -> "histogram"
      [] cls = "FaceMatcherV2"    -> "handcrafted"
      [] model_name = "Facenet"   -> "Facenet"
      [] model_name = "ArcFace"   -> "ArcFace"
      [] OTHER                    -> "generic"

\* the last call was a compare_face that detected a face against a set that
\* is not empty
Compared ==
    /\ last.op = "compare_face"
    /\ BenchmarkCount > 0
    /\ FaceDetected(last.image)

\* the largest similarity of image i to an entry is m: some entry has it and
\* none has more
IsMaxSimilarity(i, m) ==
    /\ \E k \in 1..BenchmarkCount : EntrySimilarity(i, k) = m
    /\ \A k \in 1..BenchmarkCount : EntrySimilarity(i, k) <= m

----------------------------------------------------------------------------
(* C1 *)

----------------------------------------------------------------------------
(* C2 *)

\* C2: every rating compare_face returns is in 0..5; it is 0 exactly when the
\* benchmark set is empty or no face is detected in the image.
C2_RatingRange ==
    last.op = "compare_face" =>
        /\ last.result.rating \in 0..5
        /\ last.result.rating = 0 <=> (BenchmarkCount = 0 \/ ~FaceDetected(last.image))

\* a face rated with the lowest star
C2_Witness ==
    /\ Compared
    /\ cls = "FaceMatcherV2"
    /\ last.result.rating = 1

----------------------------------------------------------------------------
(* C3 *)

\* C3 as stated: a comparison against an empty benchmark set ends in
\* NoBenchmarksError and returns no rating.
C3_EmptySetRaises ==
    (last.op = "compare_face" /\ BenchmarkCount = 0) =>
        /\ last.result.raised = "NoBenchmarksError"
        /\ "rating" \notin last.result.keys

----------------------------------------------------------------------------
(* C4 *)

\* C4: with a non-empty benchmark set, an image with no detectable face gets
\* rating 0, no similarity is recorded for any entry, and nothing is raised.
C4_NoFaceRatesZero ==
    (last.op = "compare_face" /\ BenchmarkCount > 0 /\ ~FaceDetected(last.image)) =>
        /\ last.result.rating = 0
        /\ "all_similarities" \notin last.result.keys
        /\ DOMAIN last.result.all_similarities = {}
        /\ last.result.similarities = <<>>
        /\ last.result.raised = ""

\* a readable image without a face compared against two entries
C4_Witness ==
    /\ last.op = "compare_face"
    /\ BenchmarkCount = 2
    /\ last.image = 1
    /\ cls = "FaceMatcherDeepFace"
    /\ last.result.error = "No face detected"

----------------------------------------------------------------------------
(* C5 *)

\* C5: with exactly one benchmark entry, added from image X, comparing X is
\* rated at least 4, for every model and supported metric and for the
\* handcrafted strategies.
C5_SelfMatchRatesHigh ==
    ( /\ Compared
      /\ BenchmarkCount = 1
      /\ EntryDescriptor(1) = QueryDescriptor(last.image)
      /\ cls = "FaceMatcherDeepFace" => distance_metric \in SupportedMetrics )
    => last.result.rating >= 4

\* an image compared with itself under the euclidean metric
C5_Witness ==
    /\ Compared
    /\ BenchmarkCount = 1
    /\ EntryDescriptor(1) = QueryDescriptor(last.image)
    /\ cls = "FaceMatcherDeepFace"
    /\ model_name = "ArcFace"
    /\ distance_metric = "euclidean"
    /\ last.result.rating = 5

----------------------------------------------------------------------------
(* C6 *)

\* C6: under each threshold table the rating is monotonic in the similarity.
C6_QuantizeMonotonic ==
    (probe.ratings # <<>> /\ probe.s1 <= probe.s2) => probe.ratings[1] <= probe.ratings[2]

\* two similarities the ArcFace table rates 2 and 5
C6_Witness ==
    /\ probe.table = "ArcFace"
    /\ probe.ratings = <<2, 5>>

----------------------------------------------------------------------------
(* C10 *)

----------------------------------------------------------------------------
(* C7 *)

\* the paths of the batch, as a set
BatchPaths == {image_paths[k] : k \in 1..Len(image_paths)}

\* C7: a batch over n distinct paths returns a dict of exactly n entries, one
\* for every path; an image that cannot be read or shows no face has rating 0
\* there, and the images after it have their entries too.
C7_BatchKeepsEveryItem ==
    batch_pc = "returned" =>
        /\ DOMAIN results = BatchPaths
        /\ Cardinality(DOMAIN results) = Len(image_paths)
        /\ \A i \in BatchPaths : ~FaceDetected(i) => results[i] = 0
        /\ \A i \in BatchPaths : (FaceDetected(i) /\ BenchmarkCount > 0) => results[i] \in 1..5

\* a returned batch whose first image cannot be read and whose second is rated
C7_Witness ==
    /\ batch_pc = "returned"
    /\ Len(image_paths) = 2
    /\ image_paths[1] = 0
    /\ results[image_paths[1]] = 0
    /\ results[image_paths[2]] >= 1

----------------------------------------------------------------------------
(* C8 *)

----------------------------------------------------------------------------
(* C9 *)

\* C9 as stated: the callback runs once per image, in input order, with
\* (index, total, item), and the call for an image comes after the image's
\* result is recorded.
C9_ProgressAfterItem ==
    /\ Len(progress) <= Len(image_paths)
    /\ batch_pc = "returned" => Len(progress) = Len(image_paths)
    /\ \A k \in 1..Len(progress) :
           /\ progress[k].index = k
           /\ progress[k].total = Len(image_paths)
           /\ progress[k].item = image_paths[k]
           /\ progress[k].item \in progress[k].done

\* C9, amended: the callback runs once per image, in input order, with
\* (index, total, item) where index runs from 1 to n and total is n, and the
\* call for an image comes before the image is processed: the results then hold
\* exactly the images before it.
C9_ProgressBeforeItem ==
    /\ Len(progress) = (IF batch_pc = "compare" THEN batch_i + 1 ELSE batch_i)
    /\ batch_pc = "returned" => Len(progress) = Len(image_paths)
    /\ \A k \in 1..Len(progress) :
           /\ progress[k].index = k
           /\ progress[k].total = Len(image_paths)
           /\ progress[k].item = image_paths[k]
           /\ progress[k].done = {image_paths[j] : j \in 1..(k - 1)}

\* a returned batch of two images
C9_Witness ==
    /\ batch_pc = "returned"
    /\ Len(image_paths) = 2
    /\ Len(progress) = 2

----------------------------------------------------------------------------
(* C11 *)

----------------------------------------------------------------------------
(* C12 *)

\* the number of entries the benchmark set had when the last call began
CountBefore ==
    CASE cls = "FaceMatcher"   -> Len(before.benchmark_descriptors)
      [] cls = "FaceMatcherV2" -> Len(before.benchmark_embeddings)
      [] OTHER                 -> Len(before.benchmarks)

\* C12: clear_benchmarks leaves every list of the benchmark set empty; a
\* compare_face on the set as clear left it reports the no-benchmarks outcome
\* (rating 0, error "No benchmarks"); and an add_benchmark that succeeds on the
\* set as clear left it leaves exactly one entry, the one it was given,
\* whatever the set held before the clear.
C12_ClearEmptiesSet ==
    /\ last.op = "clear_benchmarks" =>
           /\ BenchmarkCount = 0
           /\ benchmark_embeddings = <<>> /\ benchmark_names = <<>> /\ benchmarks = <<>>
    /\ (last.op = "compare_face" /\ cls # "FaceMatcher" /\ BenchmarkCount = 0) =>
           /\ last.result.rating = 0
           /\ last.result.error = "No benchmarks"
    /\ (last.op = "add_benchmark" /\ cls # "FaceMatcher" /\ last.ok /\ CountBefore = 0) =>
           /\ BenchmarkCount = 1
           /\ EntryName(1) = last.name
           /\ EntryDescriptor(1) = QueryDescriptor(last.image)

\* a clear_benchmarks has just emptied a set of two entries
C12_Witness ==
    /\ last.op = "clear_benchmarks"
    /\ CountBefore = 2
    /\ BenchmarkCount = 0

----------------------------------------------------------------------------
(* C13 *)

\* the benchmark set as a list of entries (name, descriptor), now and when the
\* last call began; FaceMatcher keeps no names
Entries == [k \in 1..BenchmarkCount |-> <<EntryName(k), EntryDescriptor(k)>>]

EntriesBefore ==
    CASE cls = "FaceMatcher" ->
             [k \in 1..Len(before.benchmark_descriptors) |->
                 <<"", before.benchmark_descriptors[k]>>]
      [] cls = "FaceMatcherV2" ->
             [k \in 1..Len(before.benchmark_embeddings) |->
                 <<before.benchmark_names[k], before.benchmark_embeddings[k]>>]
      [] OTHER ->
             [k \in 1..Len(before.benchmarks) |->
                 <<before.benchmarks[k][1], before.benchmarks[k][2]>>]

\* C13: add_benchmark returns True exactly when a face is found in the
\* reference image (never for an image that cannot be read); when it returns
\* True the set is the earlier set, in its order, with one entry appended at
\* the end: the given name and the descriptor of the image; when it returns
\* False every list of the set is as it was.
C13_AddAppendsOneEntry ==
    last.op = "add_benchmark" =>
        /\ last.ok <=> FaceDetected(last.image)
        /\ ~Readable(last.image) => ~last.ok
        /\ last.ok =>
               /\ Entries = Append(EntriesBefore,
                                   <<last.name, QueryDescriptor(last.image)>>)
               /\ Len(benchmark_names) = Len(benchmark_embeddings)
        /\ ~last.ok => BenchmarkLists = before

\* a second entry, different from the first, has just been added
C13_Witness ==
    /\ last.op = "add_benchmark" /\ last.ok
    /\ Len(EntriesBefore) = 1
    /\ BenchmarkCount = 2
    /\ Entries[1] # Entries[2]

----------------------------------------------------------------------------
(* C14 *)

\* C14 as stated: when compare_face (of FaceMatcherV2 or FaceMatcherDeepFace)
\* detects a face against a non-empty set, all_similarities holds the
\* similarity of every entry of the set under that entry's name, whether or
\* not names repeat, and the score it holds under best_match is
\* best_similarity.
C14_MapHoldsEveryEntry ==
    (Compared /\ cls # "FaceMatcher") =>
        /\ \A k \in 1..BenchmarkCount :
               /\ EntryName(k) \in DOMAIN last.result.all_similarities
               /\ last.result.all_similarities[EntryName(k)] =
                      EntrySimilarity(last.image, k)
        /\ last.result.best_match \in DOMAIN last.result.all_similarities
        /\ last.result.all_similarities[last.result.best_match] =
               last.result.best_similarity

----------------------------------------------------------------------------
(* C15 *)

\* C15: a compare_face call, and a batch_compare call at every point of its
\* run, leaves the lists of the benchmark set as they were when the call
\* began; and what the call returned is what compare_face of the same image
\* returns on the set as it stands, so that a second comparison of the image
\* gives the same result.
C15_CompareLeavesSetUnchanged ==
    /\ last.op = "compare_face" =>
           /\ BenchmarkLists = before
           /\ last.result = CompareFaceResult(last.image)
    /\ batch_pc # "idle" =>
           /\ BenchmarkLists = before
           /\ \A p \in DOMAIN results : results[p] = CompareFaceResult(p).rating

\* a batch_compare over two images has returned, on a set of two entries
C15_Witness ==
    /\ batch_pc = "returned"
    /\ Len(image_paths) = 2
    /\ BenchmarkCount = 2
    /\ \E p \in DOMAIN results : results[p] > 0

----------------------------------------------------------------------------
(* C16 *)

\* C16 as stated: a batch_compare started on a matcher whose benchmark set is
\* empty processes nothing: at every point of the run no progress has been
\* reported and no rating has been written.
C16_EmptySetAbortsBatch ==
    (batch_pc # "idle" /\ BenchmarkCount = 0) =>
        /\ progress = <<>>
        /\ results = EmptyDict

----------------------------------------------------------------------------
(* C17 *)

\* the detections of image i whose confidence is above the threshold
AboveThreshold(i) ==
    {k \in 1..Len(NetDetections(i)) : NetDetections(i)[k].confidence > ConfidenceThreshold}

\* what face location returned for the image of the last call, and the region
\* the matcher's class crops for a detection box
Located(i) == IF cls = "FaceMatcher" THEN DetectFace(i) ELSE DetectFaces(i)

CropRegion(box) ==
    IF cls = "FaceMatcher" THEN SliceRegion(box) ELSE SliceRegion(ClipBox(box))

\* C17 as stated: for a readable image whose face FaceMatcher or FaceMatcherV2
\* locates (in add_benchmark or compare_face), the outcome is None when no
\* detection is above the threshold, and otherwise the region of a detection
\* above the threshold that no other detection exceeds in confidence.
C17_HighestConfidenceRegion ==
    ( /\ last.op \in {"add_benchmark", "compare_face"}
      /\ cls \in {"FaceMatcher", "FaceMatcherV2"}
      /\ Readable(last.image) )
    => IF AboveThreshold(last.image) = {}
       THEN Located(last.image) = None
       ELSE \E k \in AboveThreshold(last.image) :
               /\ \A j \in AboveThreshold(last.image) :
                      NetDetections(last.image)[j].confidence <=
                          NetDetections(last.image)[k].confidence
               /\ Located(last.image) =
                      <<[img |-> last.image,
                         region |-> CropRegion(NetDetections(last.image)[k].box)]>>

----------------------------------------------------------------------------
(* C18 *)

\* C18 as stated: when FaceMatcher or FaceMatcherV2 locates a face in a file
\* that cannot be read, the outcome is not None, the outcome of an image with
\* no face; and a compare_face of such a file against a non-empty set does not
\* return the no-face result.
C18_UnreadableIsNotNone ==
    ( /\ last.op \in {"add_benchmark", "compare_face"}
      /\ cls \in {"FaceMatcher", "FaceMatcherV2"}
      /\ ~Readable(last.image) )
    => /\ Located(last.image) # None
       /\ (last.op = "compare_face" /\ BenchmarkCount > 0) =>
              /\ last.result.error # "No face detected"
              /\ last.result.raised = "DecodeError"

----------------------------------------------------------------------------
(* C19 *)

----------------------------------------------------------------------------
(* C20 *)

\* avg_sim of a photo in run_face_similarity_analysis: the mean of the cosine
\* similarities of its ArcFace embedding to the benchmark embeddings
AnalysisScore(bench, i) ==
    LET embedding == AnalysisRepresent(i).result[1].embedding
    IN Mean([k \in 1..Len(bench) |-> AnalysisSimilarity(embedding, bench[k])])

----------------------------------------------------------------------------
(* C21 *)

\* the Euclidean norm of a descriptor is 1, within the rounding of the
\* fixed-point arithmetic (three hundredths)
UnitNorm(d) == Norm(d.vec) \in (Scale - 3)..(Scale + 3)

\* C21 as stated: every descriptor stored as a benchmark, and the descriptor of
\* the query of a compare_face that detected a face, has Euclidean norm 1.
C21_DescriptorsHaveUnitNorm ==
    /\ \A k \in 1..BenchmarkCount : UnitNorm(EntryDescriptor(k))
    /\ Compared => UnitNorm(QueryDescriptor(last.image))

----------------------------------------------------------------------------
(* C22 *)

\* the detection selected in image i: the first of those of highest confidence
\* above the threshold
Selected(i) ==
    CHOOSE k \in AboveThreshold(i) :
        \A j \in AboveThreshold(i) :
            \/ NetDetections(i)[j].confidence < NetDetections(i)[k].confidence
            \/ (NetDetections(i)[j].confidence = NetDetections(i)[k].confidence /\ k <= j)

\* C22 as stated: when the box of the selected detection has zero area after
\* clipping, FaceMatcher and FaceMatcherV2 treat the image as one with no face:
\* face location gives None, add_benchmark returns False, and compare_face
\* against a non-empty set rates 0.
C22_EmptyRegionIsNotFound ==
    ( /\ last.op \in {"add_benchmark", "compare_face"}
      /\ cls \in {"FaceMatcher", "FaceMatcherV2"}
      /\ Readable(last.image)
      /\ AboveThreshold(last.image) # {}
      /\ RegionSize(ClipBox(NetDetections(last.image)[Selected(last.image)].box)) = 0 )
    => /\ Located(last.image) = None
       /\ last.op = "add_benchmark" => ~last.ok
       /\ (last.op = "compare_face" /\ BenchmarkCount > 0) => last.result.rating = 0

----------------------------------------------------------------------------
(* C23 *)

\* C23: at every point of a batch_compare run, the rating held for each image
\* processed so far is the rating compare_face gives that image alone against
\* the benchmark set, whatever the other images of the batch and their order.
C23_BatchEqualsSingle ==
    batch_pc # "idle" =>
        \A k \in 1..batch_i :
            /\ image_paths[k] \in DOMAIN results
            /\ results[image_paths[k]] = CompareFaceResult(image_paths[k]).rating

\* a batch over two images has returned two different ratings, the higher first
C23_Witness ==
    /\ batch_pc = "returned"
    /\ Len(image_paths) = 2
    /\ BenchmarkCount > 0
    /\ results[image_paths[1]] > results[image_paths[2]]
    /\ results[image_paths[2]] > 0

----------------------------------------------------------------------------
(* C24 *)

\* C24 as stated, for FaceMatchingTab.run_analysis: a run that got as far as
\* the photo loop ends complete (no photo stops it), and the rating stored for
\* every photo of the library whose file exists is then the rating compare_face
\* computed for it in the run, 0 for a photo that could not be rated.
C24_StoredRatingIsComputed ==
    (analysis_pc \in {"complete", "failed"} /\ cls # "None") =>
        /\ analysis_pc = "complete"
        /\ \A k \in 1..Len(photos) :
               Exists(photos[k]) =>
                   face_similarity[photos[k]] = CompareFaceResult(photos[k]).rating

\* ---------------------------------------------------------------------------
\* C25: clipping of the detection box before the crop

\* the coordinates <<x1, y1, x2, y2>> that face location of the matcher's class
\* puts in the crop img[y1:y2, x1:x2], one tuple per detection it crops:
\* FaceMatcherV2 crops every detection above the threshold after the max/min
\* clip, FaceMatcher crops the most confident box as the detector gave it
CropCoordinates(i) ==
    IF cls = "FaceMatcher"
    THEN LET best == BestBoxFrom(NetDetections(i), 1, 0, 0)
         IN IF best = 0 THEN {} ELSE {NetDetections(i)[best].box}
    ELSE {ClipBox(NetDetections(i)[k].box) : k \in AboveThreshold(i)}

\* C25 as stated: for a readable image of width w and height h whose face
\* FaceMatcher or FaceMatcherV2 locates, the crop coordinates of every cropped
\* detection box satisfy 0 <= x1, 0 <= y1, x2 <= w and y2 <= h.
C25_CropIsClipped ==
    ( /\ last.op \in {"add_benchmark", "compare_face"}
      /\ cls \in {"FaceMatcher", "FaceMatcherV2"}
      /\ Readable(last.image) )
    => \A c \in CropCoordinates(last.image) :
           /\ 0 <= c[1]
           /\ 0 <= c[2]
           /\ c[3] <= ImageSize[1]
           /\ c[4] <= ImageSize[2]

\* ---------------------------------------------------------------------------
\* C26: a larger benchmark set never lowers a rating

\* the rating compare_face gives image i against the set as it was when the
\* last call began
RatingBefore(i) ==
    CASE cls = "FaceMatcherV2" ->
             V2CompareFace(before.benchmark_embeddings, before.benchmark_names, i).rating
      [] OTHER ->
             DeepFaceCompareFace(model_name, distance_metric, before.benchmarks, i).rating

\* C26: after an add_benchmark of FaceMatcherV2 or FaceMatcherDeepFace that
\* stored an entry in a non-empty set, every image with a detected face is
\* rated against the extended set at least as high as against the set before
\* the call.
C26_AddNeverLowersRating ==
    ( /\ last.op = "add_benchmark" /\ last.ok
      /\ cls \in {"FaceMatcherV2", "FaceMatcherDeepFace"}
      /\ CountBefore > 0 )
    => \A i \in Images :
           FaceDetected(i) => CompareFaceResult(i).rating >= RatingBefore(i)

\* an entry was added to a non-empty set and the rating of some image rose,
\* while another image keeps a rating above 1 that the new entry alone would
\* not give it
C26_Witness ==
    /\ last.op = "add_benchmark" /\ last.ok
    /\ cls \in {"FaceMatcherV2", "FaceMatcherDeepFace"}
    /\ CountBefore > 0
    /\ BenchmarkCount = CountBefore + 1
    /\ \E i \in Images :
           FaceDetected(i) /\ CompareFaceResult(i).rating > RatingBefore(i)
    /\ \E i \in Images :
           /\ FaceDetected(i)
           /\ RatingBefore(i) > 1
           /\ CompareFaceResult(i).rating = RatingBefore(i)
           /\ EntrySimilarity(i, BenchmarkCount) < CompareFaceResult(i).best_similarity

\* ---------------------------------------------------------------------------
\* C27: run_analysis rebuilds the benchmark set from the reference list

\* the positions of the reference list whose path exists and yields a face
\* for the matcher, and the j-th of them in list order
Usable ==
    {k \in 1..Len(benchmark_photos) :
        Exists(benchmark_photos[k]) /\ FaceDetected(benchmark_photos[k])}

UsablePosition(j) ==
    CHOOSE k \in Usable : Cardinality({m \in Usable : m <= k}) = j

\* C27: when a run_analysis has passed its reload step, the matcher's set
\* holds exactly one entry for each position of the reference list whose path
\* exists and yields a face, in list order, named Benchmark_<position> and
\* holding the descriptor of that path, whatever the set held before the run.
C27_RunRebuildsSet ==
    (analysis_pc \in {"complete", "failed"} /\ cls # "None") =>
        /\ BenchmarkCount = Cardinality(Usable)
        /\ \A j \in 1..BenchmarkCount :
               /\ EntryName(j) = "Benchmark_" \o ToString(UsablePosition(j))
               /\ EntryDescriptor(j) = QueryDescriptor(benchmark_photos[UsablePosition(j)])

\* a run has reloaded a list whose first path yields no entry and whose
\* second path does: the set holds the one entry Benchmark_2
C27_Witness ==
    /\ analysis_pc \in {"complete", "failed"}
    /\ cls # "None"
    /\ Len(benchmark_photos) >= 2
    /\ 1 \notin Usable /\ 2 \in Usable
    /\ BenchmarkCount = Cardinality(Usable)
    /\ EntryName(1) = "Benchmark_2"

\* ---------------------------------------------------------------------------
\* C28: matcher_type and the matcher the tab holds

\* C28 as stated: whenever the tab holds a matcher, matcher_type is "deepface"
\* exactly when the matcher is a FaceMatcherDeepFace, also after a selection
\* change whose constructor failed; so a run_analysis that got as far as the
\* matcher ran with a matcher of the selected kind.
C28_TypeNamesHeldMatcher ==
    cls # "None" => (matcher_type = "deepface" <=> cls = "FaceMatcherDeepFace")

\* ---------------------------------------------------------------------------
\* C29: a distance metric that _compute_similarity does not list

\* the descriptor of a decodable image under a model
ModelDescriptor(m, i) == Descriptor(m, ServiceEmbedding(m, i))

\* C29: when FaceMatcherDeepFace has a distance_metric other than cosine,
\* euclidean and euclidean_l2, a compare_face of an image with a detected face
\* against a non-empty set raises nothing, finds similarity 0 to every entry
\* and rates 1; and _compute_similarity gives 0 without an error for every pair
\* of descriptors, of one model or of two.
C29_UnlistedMetricRatesOne ==
    (Compared /\ cls = "FaceMatcherDeepFace" /\ distance_metric \notin SupportedMetrics) =>
        /\ last.result.raised = ""
        /\ "error" \notin last.result.keys
        /\ last.result.rating = 1
        /\ last.result.best_similarity = 0
        /\ \A k \in 1..BenchmarkCount : EntrySimilarity(last.image, k) = 0
        /\ \A m \in Models, i, j \in Images \ {0} :
               ComputeSimilarity(distance_metric, ModelDescriptor(m, i),
                                 ModelDescriptor(m, j)) = 0
        /\ \A m1, m2 \in Models, i, j \in Images \ {0} :
               ComputeSimilarityCall(distance_metric, ModelDescriptor(m1, i),
                                     ModelDescriptor(m2, j)) = [raised |-> "", value |-> 0]

\* an image was compared under an unlisted metric with a set that holds the
\* descriptor of that very image, and was rated 1
C29_Witness ==
    /\ Compared
    /\ cls = "FaceMatcherDeepFace"
    /\ distance_metric \notin SupportedMetrics
    /\ \E k \in 1..BenchmarkCount : EntryDescriptor(k) = QueryDescriptor(last.image)
    /\ last.result.rating = 1

\* ---------------------------------------------------------------------------
\* C30: the two lists of FaceMatcherV2 stay paired

\* C30: in FaceMatcherV2, benchmark_embeddings and benchmark_names always have
\* one length; an add_benchmark that returns True appends the embedding of its
\* image to the one and the name it was given to the other, at the same
\* position, and every other call leaves both as they were or empties both, so
\* the name at a position is the name of the call that stored the embedding
\* there; the best_match of a compare_face is the name at the position of the
\* first largest similarity.
C30_NamesPairedWithEmbeddings ==
    cls = "FaceMatcherV2" =>
        /\ Len(benchmark_embeddings) = Len(benchmark_names)
        /\ (last.op = "add_benchmark" /\ last.ok) =>
               /\ benchmark_names = before.benchmark_names \o <<last.name>>
               /\ benchmark_embeddings =
                      before.benchmark_embeddings
                          \o <<ComputeEmbedding(DetectFaces(last.image)[1])>>
        /\ (last.op = "add_benchmark" /\ ~last.ok) =>
               /\ benchmark_names = before.benchmark_names
               /\ benchmark_embeddings = before.benchmark_embeddings
        /\ last.op = "clear_benchmarks" =>
               benchmark_names = <<>> /\ benchmark_embeddings = <<>>
        /\ last.op = "compare_face" =>
               /\ benchmark_names = before.benchmark_names
               /\ benchmark_embeddings = before.benchmark_embeddings
        /\ Compared =>
               \E k \in 1..Len(benchmark_names) :
                   /\ last.result.best_match = benchmark_names[k]
                   /\ EntrySimilarity(last.image, k) = last.result.best_similarity
                   /\ \A j \in 1..(k - 1) :
                          EntrySimilarity(last.image, j) < last.result.best_similarity

\* an add_benchmark stored a second entry under a name other than the first
\* entry's
C30_Witness ==
    /\ cls = "FaceMatcherV2"
    /\ last.op = "add_benchmark" /\ last.ok
    /\ Len(before.benchmark_names) = 1
    /\ Len(benchmark_embeddings) = 2
    /\ last.name = "Benchmark_1"
    /\ benchmark_names = <<"benchmark", "Benchmark_1">>

====
